---- MODULE Spec2Model ----
(***************************************************************************)
(* Quiz-attempt ledger and progress/mastery aggregation of the tutoring    *)
(* backend.  Three entry points are modelled:                              *)
(*   v1      REST routes over quiz_attempts / attempt_items, which publish *)
(*           progress events to the progress worker (progress_summary);    *)
(*   legacy  REST routes over quizzes / quiz_responses with a direct       *)
(*           upsert into user_progress;                                    *)
(*   graphql QuizService behind the GraphQL mutations, over the same       *)
(*           quizzes / quiz_responses tables as the legacy routes.         *)
(* Numbers with decimals are kept as integers in hundredths (1.0 = 100,    *)
(* 0.05 = 5, a percentage 50 = 5000).  SQL NULL / JS undefined is "NULL"   *)
(* for text and booleans and -1 for numbers.                               *)
(* The v1 handlers read and write quiz_attempts.completed_questions; the   *)
(* table is modelled with that column, as the handlers use it.             *)
(* A handler is one atomic step in Spec, SpecV1, SpecLegacy, SpecBank and  *)
(* SpecWorker.  SpecRace runs the v1 saveAnswer and submit handlers one    *)
(* step per awaited query, two requests at a time; SpecWorkerRace and      *)
(* SpecWorkerRetry run the queue workers one step per statement of         *)
(* updateProgressSummary, with concurrent workers and with failing         *)
(* statements and Bull's retries.                                          *)
(***************************************************************************)
EXTENDS Integers, Sequences, FiniteSets, TLC

\* ---------------------------------------------------------------- bounds
MaxClock == 4
MaxClockLegacy == 3
MaxClockAll == 2
MaxAttempts == 1
MaxTotalQuestions == 3
MaxMasteryTotal == 45
MaxAnswers == 24
MaxClockBank == 3
MaxBulkTotal == 3
MaxClockRace == 2
MaxEvents == 3
MaxRetryEvents == 2

\* ------------------------------------------------------- program constants
FullConfidenceAt == 20
LegacyFullMasteryAt == 10
StreakThreshold == 7000
MaxTries == 3

\* ------------------------------------------------------------ input sets
Users == {"u1", "u2"}
UserRole(u) == IF u = "u2" THEN "admin" ELSE "student"
QIds == <<"q1", "q2", "q3">>
Answers == {"x", "y", "a"}
Keys == {"NULL", "k1", "k2"}
HintsUsedValues == {0}
AttemptIds == 1..MaxAttempts
Ordinals == 1..MaxTotalQuestions
ItemIds == AttemptIds \X Ordinals
Subject == "math"
Topic == "algebra"
Skills == {"s1", "s2", Topic}
\* two requests, and two of the queue's workers, can be under way at a time
Slots == {"r1", "r2"}

\* ----------------------------------------------------------------- state
VARIABLES
  questions,        \* MongoDB question documents, by _id
  quiz_attempts,    \* v1 table quiz_attempts, by attempt_id
  attempt_items,    \* v1 table attempt_items, by <<attempt_id, ordinal>>
  progressQueue,    \* Bull queue 'progress processing': the set of waiting jobs
  progress_summary, \* v1 table progress_summary, by <<user_id, skill>>
  user_streak,      \* Redis counter user_streak_<userId>
  quizzes,          \* legacy table quizzes, by quiz_id
  quiz_responses,   \* legacy table quiz_responses, by <<quiz_id, ordinal>>
  user_progress,    \* legacy table user_progress, by user_id (one subject/topic)
  firstAccepted,    \* per item: the key, answer and result of its first accepted answer
  startSnapshot,    \* per item: the question document as it was when the attempt started
  progressHistory,  \* per progress_summary row: what the worker has applied to it so far
  resp,             \* the outcome of the most recent operation
  now,              \* the clock behind CURRENT_TIMESTAMP / new Date()
  mIn, mOut,        \* argument and result of calculateMasteryLevel (SpecMastery)
  inflight,         \* per request slot: the handler suspended at an await, with its locals
  activeJobs,       \* per worker slot: the job a queue worker is processing, with its locals
  completedJobs,    \* Bull's completed set (removeOnComplete keeps the last 100)
  failedJobs        \* Bull's failed set (removeOnFail keeps the last 50)

vars == <<questions, quiz_attempts, attempt_items, progressQueue, progress_summary,
          user_streak, quizzes, quiz_responses, user_progress, firstAccepted,
          startSnapshot, progressHistory, resp, now, mIn, mOut, inflight, activeJobs,
          completedJobs, failedJobs>>

v1Vars == <<quiz_attempts, attempt_items, progressQueue, progress_summary, user_streak>>
legacyVars == <<quizzes, quiz_responses, user_progress>>
masteryVars == <<mIn, mOut>>
historyVars == <<startSnapshot, progressHistory>>
stepVars == <<inflight, activeJobs, completedJobs, failedJobs>>

\* ------------------------------------------------------------- helpers
Max(a, b) == IF a >= b THEN a ELSE b
Min(a, b) == IF a <= b THEN a ELSE b

\* n / d rounded to the nearest integer, halves up (Math.round; SQL ROUND on
\* non-negative numerics), for d > 0
RoundDiv(n, d) == (2 * n + d) \div (2 * d)

Reverse(s) == [i \in 1..Len(s) |-> s[Len(s) + 1 - i]]

RECURSIVE SelectSeq2(_, _)
SelectSeq2(s, keep) ==
  IF s = <<>> THEN <<>>
  ELSE IF Head(s) \in keep THEN <<Head(s)>> \o SelectSeq2(Tail(s), keep)
       ELSE SelectSeq2(Tail(s), keep)

\* availableQuestions.sort(() => 0.5 - Math.random()): the orders considered
ShuffleOutcomes(s) == {s, Reverse(s)}

\* .slice(0, n)
Slice(s, n) == SubSeq(s, 1, Min(n, Len(s)))

Range(s) == {s[i] : i \in 1..Len(s)}

\* ------------------------------------------------------ question documents
\* Versioned documents carry content{stem, options, correctOptionIds};
\* legacy documents carry questionText / options / correctAnswer and no content.
OptionList == << [id |-> "a", text |-> "x"], [id |-> "b", text |-> "y"] >>

VersionedDoc(skills, hasSkills) ==
  [exists |-> TRUE, status |-> "active", subject |-> Subject, topic |-> Topic,
   hasContent |-> TRUE, options |-> OptionList, correctOptionIds |-> <<"a">>,
   canonicalSolution |-> "NULL", correctAnswer |-> "NULL",
   hasSkillIds |-> hasSkills, skillIds |-> skills, version |-> 1]

LegacyDoc ==
  [exists |-> TRUE, status |-> "active", subject |-> Subject, topic |-> Topic,
   hasContent |-> FALSE, options |-> <<>>, correctOptionIds |-> <<>>,
   canonicalSolution |-> "NULL", correctAnswer |-> "x",
   hasSkillIds |-> FALSE, skillIds |-> <<>>, version |-> 1]

InitialQuestions ==
  [q \in Range(QIds) |->
     IF q = "q1" THEN VersionedDoc(<<"s1">>, TRUE)
     ELSE IF q = "q2" THEN VersionedDoc(<<"s2">>, TRUE)
     ELSE LegacyDoc]

\* VersionedQuestion.find(filter).lean(), in _id order
Find(status) ==
  SelectSeq2(QIds, {q \in Range(QIds) : questions[q].exists
                                        /\ questions[q].status = status
                                        /\ questions[q].subject = Subject
                                        /\ questions[q].topic = Topic})

\* ------------------------------------------------------------ empty rows
NoAttempt ==
  [exists |-> FALSE, user_id |-> "NULL", total_questions |-> 0, status |-> "NULL",
   completed_at |-> -1, completed_questions |-> 0, score |-> -1]

NoItem ==
  [exists |-> FALSE, question_id |-> "NULL", options |-> <<>>,
   hasSkillIds |-> FALSE, skillIds |-> <<>>, correct_answer |-> "NULL",
   answer |-> "NULL", is_correct |-> "NULL", score |-> -1,
   hints_used |-> 0, attempts |-> 0, responded_at |-> -1]

NoProgress ==
  [exists |-> FALSE, total_questions_answered |-> 0, correct_answers |-> 0,
   mastery_level |-> 0, current_streak |-> 0, best_streak |-> 0]

NoAccepted ==
  [set |-> FALSE, key |-> "NULL", answer |-> "NULL",
   isCorrect |-> "NULL", score |-> -1, correctAnswer |-> "NULL"]

\* no question document recorded
NoSnapshot ==
  [exists |-> FALSE, status |-> "NULL", subject |-> "NULL", topic |-> "NULL",
   hasContent |-> FALSE, options |-> <<>>, correctOptionIds |-> <<>>,
   canonicalSolution |-> "NULL", correctAnswer |-> "NULL",
   hasSkillIds |-> FALSE, skillIds |-> <<>>, version |-> 0]

\* nothing applied to a progress_summary row yet: answers counts the ANSWER_SAVED
\* outcomes applied, allCorrect tells that every event applied so far was one
\* correct answer, high is the largest current_streak the row has held
NoHistory == [answers |-> 0, allCorrect |-> TRUE, high |-> 0]

NoBody ==
  [alreadyAnswered |-> FALSE, isCorrect |-> "NULL", score |-> -1,
   correctAnswer |-> "NULL", finalScore |-> -1, answeredQuestions |-> -1,
   totalQuestions |-> -1]

NoResp ==
  [op |-> "none", via |-> "NULL", attempt |-> 0, item |-> <<0, 0>>, key |-> "NULL",
   code |-> 0, body |-> NoBody]

\* the outcome of a request without an Idempotency-Key
Response(op, via, a, it, code, body) ==
  [op |-> op, via |-> via, attempt |-> a, item |-> it, key |-> "NULL", code |-> code,
   body |-> body]

\* the outcome of a saveAnswer request, with the Idempotency-Key it carried
KeyedResponse(via, a, it, key, code, body) ==
  [Response("saveAnswer", via, a, it, code, body) EXCEPT !.key = key]

BoolText(b) == IF b THEN "true" ELSE "false"

\* no job
NoJob ==
  [id |-> -1, type |-> "NULL", userId |-> "NULL", attemptId |-> 0, itemId |-> <<0, 0>>,
   hasSkillIds |-> FALSE, skillIds |-> <<>>,
   isCorrect |-> "NULL", score |-> -1, finalScore |-> -1, updates |-> <<>>]

\* a request slot with no handler running: pc is the await the handler is
\* suspended at, the other fields are the handler's local constants
Idle ==
  [pc |-> "idle", u |-> "NULL", a |-> 0, it |-> <<0, 0>>, key |-> "NULL",
   answer |-> "NULL", hints |-> 0, isCorrect |-> "NULL", score |-> -1,
   correctAnswer |-> "NULL", hasSkillIds |-> FALSE, skillIds |-> <<>>,
   finalScore |-> -1, answeredCount |-> -1, totalQuestions |-> -1]

\* a worker slot with no job: index is the position in the job's skill list,
\* existing the row the open transaction has selected, attemptsMade the number
\* of runs of the callback that have thrown, lastError the last error thrown
NoActive ==
  [pc |-> "idle", job |-> NoJob, index |-> 0, existing |-> NoProgress,
   attemptsMade |-> 0, lastError |-> "NULL"]

\* ------------------------------------------------------ mastery accumulator
\* correct/total pairs whose product accuracy * confidenceMultiplier * 100 is
\* an exact half in the reals but evaluates just below it in IEEE-754 doubles
\* (23 / 40 * 1 * 100 = 57.49999999999999), so that Math.round goes down
Ieee754LowTies == {<<23, 40>>}

\* calculateMasteryLevel without the confidence multiplier (mutant)
calculateMasteryLevel_Undamped(correct, total) ==
  IF total = 0 THEN 0 ELSE RoundDiv(100 * correct, total)

\* calculateMasteryLevel with a confidence that fades as answers accumulate (mutant)
calculateMasteryLevel_FadingConfidence(correct, total) ==
  IF total = 0 THEN 0
  ELSE RoundDiv(100 * correct * (FullConfidenceAt - Min(FullConfidenceAt, total)),
                total * FullConfidenceAt)

\* calculateMasteryLevel(correct, total), in hundredths
calculateMasteryLevel(correct, total) ==
  IF total = 0 THEN 0
  ELSE LET confidence == Min(FullConfidenceAt, total)  \* twentieths of min(1, total/20)
           num == 100 * correct * confidence
           den == total * FullConfidenceAt
       IN IF <<correct, total>> \in Ieee754LowTies
          THEN num \div den
          ELSE RoundDiv(num, den)

\* updateProgressSummary whose streak is never reset (mutant)
updateProgressSummary_StreakKept(existing, totalQuestions, correctAnswers) ==
  IF ~existing.exists
  THEN [exists |-> TRUE,
        total_questions_answered |-> totalQuestions,
        correct_answers |-> correctAnswers,
        mastery_level |-> calculateMasteryLevel(correctAnswers, totalQuestions),
        current_streak |-> 0, best_streak |-> 0]
  ELSE [exists |-> TRUE,
        total_questions_answered |-> existing.total_questions_answered + totalQuestions,
        correct_answers |-> existing.correct_answers + correctAnswers,
        mastery_level |-> calculateMasteryLevel(existing.correct_answers + correctAnswers,
                                                existing.total_questions_answered + totalQuestions),
        current_streak |-> existing.current_streak + 1,
        best_streak |-> Max(existing.best_streak, existing.current_streak + 1)]

\* updateProgressSummary whose best_streak follows current_streak (mutant)
updateProgressSummary_BestFollows(existing, totalQuestions, correctAnswers) ==
  IF ~existing.exists
  THEN [exists |-> TRUE,
        total_questions_answered |-> totalQuestions,
        correct_answers |-> correctAnswers,
        mastery_level |-> calculateMasteryLevel(correctAnswers, totalQuestions),
        current_streak |-> 0, best_streak |-> 0]
  ELSE LET newCurrentStreak == IF correctAnswers = totalQuestions
                               THEN existing.current_streak + 1 ELSE 0
       IN [exists |-> TRUE,
           total_questions_answered |-> existing.total_questions_answered + totalQuestions,
           correct_answers |-> existing.correct_answers + correctAnswers,
           mastery_level |-> calculateMasteryLevel(existing.correct_answers + correctAnswers,
                                                   existing.total_questions_answered + totalQuestions),
           current_streak |-> newCurrentStreak,
           best_streak |-> newCurrentStreak]

\* updateProgressSummary: the row written for one (user, subject, topic, skill)
updateProgressSummary(existing, totalQuestions, correctAnswers) ==
  IF ~existing.exists
  THEN [exists |-> TRUE,
        total_questions_answered |-> totalQuestions,
        correct_answers |-> correctAnswers,
        mastery_level |-> calculateMasteryLevel(correctAnswers, totalQuestions),
        current_streak |-> 0, best_streak |-> 0]
  ELSE LET newTotal == existing.total_questions_answered + totalQuestions
           newCorrect == existing.correct_answers + correctAnswers
           lastCorrect == correctAnswers = totalQuestions
           newCurrentStreak == IF lastCorrect THEN existing.current_streak + 1 ELSE 0
       IN [exists |-> TRUE,
           total_questions_answered |-> newTotal,
           correct_answers |-> newCorrect,
           mastery_level |-> calculateMasteryLevel(newCorrect, newTotal),
           current_streak |-> newCurrentStreak,
           best_streak |-> Max(existing.best_streak, newCurrentStreak)]

\* skillIds || [topic]
SkillsOf(hasSkillIds, skillIds) == IF hasSkillIds THEN skillIds ELSE <<Topic>>

\* processAnswerSaved: one updateProgressSummary per listed skill, in order
RECURSIVE processAnswerSaved(_, _, _, _)
processAnswerSaved(ps, userId, skills, isCorrect) ==
  IF skills = <<>> THEN ps
  ELSE LET k == <<userId, Head(skills)>>
           next == [ps EXCEPT ![k] = updateProgressSummary(ps[k], 1, IF isCorrect = "true" THEN 1 ELSE 0)]
       IN processAnswerSaved(next, userId, Tail(skills), isCorrect)

Occurrences(s, x) == Cardinality({i \in 1..Len(s) : s[i] = x})

RECURSIVE SumOrd(_, _)
SumOrd(f, n) == IF n = 0 THEN 0 ELSE f[n] + SumOrd(f, n - 1)

\* processAttemptCompleted: groupedBySkill over the attempt's answered items
GroupedTotal(a, skill) ==
  SumOrd([o \in Ordinals |->
            LET it == attempt_items[<<a, o>>] IN
            IF it.exists /\ it.answer # "NULL"
            THEN Occurrences(SkillsOf(it.hasSkillIds, it.skillIds), skill) ELSE 0],
         MaxTotalQuestions)

GroupedCorrect(a, skill) ==
  SumOrd([o \in Ordinals |->
            LET it == attempt_items[<<a, o>>] IN
            IF it.exists /\ it.answer # "NULL" /\ it.is_correct = "true"
            THEN Occurrences(SkillsOf(it.hasSkillIds, it.skillIds), skill) ELSE 0],
         MaxTotalQuestions)

processAttemptCompleted(ps, userId, a) ==
  [k \in DOMAIN ps |->
     IF k[1] = userId /\ quiz_attempts[a].exists /\ GroupedTotal(a, k[2]) > 0
     THEN updateProgressSummary(ps[k], GroupedTotal(a, k[2]), GroupedCorrect(a, k[2]))
     ELSE ps[k]]

\* processBulkUpdate: one updateProgressSummary per listed update, in order
RECURSIVE processBulkUpdate(_, _, _)
processBulkUpdate(ps, userId, updates) ==
  IF updates = <<>> THEN ps
  ELSE LET update == Head(updates)
           k == <<userId, update.skill>>
           next == [ps EXCEPT ![k] = updateProgressSummary(ps[k], update.totalQuestions,
                                                           update.correctAnswers)]
       IN processBulkUpdate(next, userId, Tail(updates))

\* updateStreaks: redis incr / del of user_streak_<userId>
updateStreaks(streaks, userId, wasSuccessful) ==
  [streaks EXCEPT ![userId] = IF wasSuccessful THEN @ + 1 ELSE 0]

\* ------------------------------------------------------------------ Init
InitLedger ==
  /\ questions = InitialQuestions
  /\ quiz_attempts = [a \in AttemptIds |-> NoAttempt]
  /\ attempt_items = [i \in ItemIds |-> NoItem]
  /\ progressQueue = {}
  /\ progress_summary = [k \in Users \X Skills |-> NoProgress]
  /\ user_streak = [u \in Users |-> 0]
  /\ quizzes = [a \in AttemptIds |-> NoAttempt]
  /\ quiz_responses = [i \in ItemIds |-> NoItem]
  /\ user_progress = [u \in Users |-> NoProgress]
  /\ firstAccepted = [s \in {"v1", "legacy"} |-> [i \in ItemIds |-> NoAccepted]]
  /\ startSnapshot = [s \in {"v1", "legacy"} |-> [i \in ItemIds |-> NoSnapshot]]
  /\ progressHistory = [k \in Users \X Skills |-> NoHistory]
  /\ resp = NoResp
  /\ now = 0
  /\ inflight = [r \in Slots |-> Idle]
  /\ activeJobs = [w \in Slots |-> NoActive]
  /\ completedJobs = {}
  /\ failedJobs = {}

Init ==
  /\ InitLedger
  /\ mIn = <<0, 0>>
  /\ mOut = -1

\* the next generated primary key of a table
FreeIds(table) == {a \in AttemptIds : ~table[a].exists}
NextId(table) == CHOOSE a \in FreeIds(table) : \A b \in FreeIds(table) : a <= b

\* the clock advances with every request that writes; a rejected request and the
\* worker, whose rows carry no modelled timestamp, leave it
Tick == now' = now + 1

\* the ownership test letting an admin through (mutant)
OwnedBy_OrAdmin(attempt, u) == attempt.user_id = u \/ UserRole(u) = "admin"

\* attempt.user_id !== req.user.user_id, negated; the same test in every route
OwnedBy(attempt, u) == attempt.user_id = u

\* the idempotency check made only for requests without a key (mutant)
AlreadyAnswered_Unkeyed(key, item) == key = "NULL" /\ item.exists /\ item.answer # "NULL"

\* the idempotency check: a key was sent and the item already holds an answer
AlreadyAnswered(key, item) == key # "NULL" /\ item.exists /\ item.answer # "NULL"

\* ------------------------------------------------------- v1 REST routes
\* POST /quiz-attempts
StartAttemptV1(u, n) ==
  /\ FreeIds(quiz_attempts) # {}
  /\ UNCHANGED <<questions, progressQueue, progress_summary, user_streak,
                 legacyVars, firstAccepted, progressHistory, masteryVars, stepVars>>
  /\ LET available == Find("active") IN
     IF Len(available) < n
     THEN /\ resp' = Response("start", "v1", 0, <<0, 0>>, 400, NoBody)
          /\ UNCHANGED <<quiz_attempts, attempt_items, startSnapshot, now>>
     ELSE \E shuffled \in ShuffleOutcomes(available) :
            LET selected == Slice(shuffled, n)
                a == NextId(quiz_attempts)
            IN IF \E i \in 1..Len(selected) : ~questions[selected[i]].hasContent
               THEN \* question.content.stem throws inside the transaction: ROLLBACK
                    /\ resp' = Response("start", "v1", 0, <<0, 0>>, 500, NoBody)
                    /\ UNCHANGED <<quiz_attempts, attempt_items, startSnapshot, now>>
               ELSE /\ quiz_attempts' = [quiz_attempts EXCEPT ![a] =
                          [exists |-> TRUE, user_id |-> u, total_questions |-> n,
                           status |-> "in_progress", completed_at |-> -1,
                           completed_questions |-> 0, score |-> -1]]
                    /\ attempt_items' = [i \in ItemIds |->
                          IF i[1] = a /\ i[2] <= Len(selected)
                          THEN LET q == questions[selected[i[2]]] IN
                               [NoItem EXCEPT !.exists = TRUE,
                                              !.question_id = selected[i[2]],
                                              !.options = q.options,
                                              !.hasSkillIds = q.hasSkillIds,
                                              !.skillIds = q.skillIds,
                                              !.attempts = 1]
                          ELSE attempt_items[i]]
                    /\ startSnapshot' = [startSnapshot EXCEPT !["v1"] =
                          [i \in ItemIds |->
                             IF i[1] = a /\ i[2] <= Len(selected)
                             THEN questions[selected[i[2]]] ELSE @[i]]]
                    /\ Tick
                    /\ resp' = Response("start", "v1", a, <<0, 0>>, 201, NoBody)

AnsweredCount(items, a) ==
  Cardinality({o \in Ordinals : items[<<a, o>>].exists /\ items[<<a, o>>].answer # "NULL"})

CorrectCount(items, a) ==
  Cardinality({o \in Ordinals : items[<<a, o>>].exists /\ items[<<a, o>>].answer # "NULL"
                                /\ items[<<a, o>>].is_correct = "true"})

\* shownPayload.options.find(opt => opt.text === answer): its id, or "NULL"
SelectedOptionId(options, answer) ==
  IF \E i \in 1..Len(options) : options[i].text = answer
  THEN options[CHOOSE i \in 1..Len(options) :
                 /\ options[i].text = answer
                 /\ \A j \in 1..Len(options) : options[j].text = answer => i <= j].id
  ELSE "NULL"

\* selectedOption && correctAnswers.includes(selectedOption.id)
GradeV1(options, correctOptionIds, answer) ==
  LET sel == SelectedOptionId(options, answer) IN
  IF sel = "NULL" THEN "NULL" ELSE BoolText(sel \in Range(correctOptionIds))

\* options.find(opt => correctAnswers.includes(opt.id))?.text
FirstCorrectText(options, correctOptionIds) ==
  IF \E i \in 1..Len(options) : options[i].id \in Range(correctOptionIds)
  THEN options[CHOOSE i \in 1..Len(options) :
                 /\ options[i].id \in Range(correctOptionIds)
                 /\ \A j \in 1..Len(options) : options[j].id \in Range(correctOptionIds) => i <= j].text
  ELSE "NULL"

AnswerSavedJob(u, a, it, item, isCorrect, score) ==
  [id |-> now, type |-> "ANSWER_SAVED", userId |-> u, attemptId |-> a, itemId |-> it,
   hasSkillIds |-> item.hasSkillIds, skillIds |-> item.skillIds,
   isCorrect |-> isCorrect, score |-> score, finalScore |-> -1, updates |-> <<>>]

AttemptCompletedJob(u, a, finalScore) ==
  [id |-> now, type |-> "ATTEMPT_COMPLETED", userId |-> u, attemptId |-> a, itemId |-> <<0, 0>>,
   hasSkillIds |-> FALSE, skillIds |-> <<>>,
   isCorrect |-> "NULL", score |-> -1, finalScore |-> finalScore, updates |-> <<>>]

\* a BULK_UPDATE event: updates lists {skill, stats: {totalQuestions, correctAnswers}}
BulkUpdateJob(u, updates) ==
  [id |-> now, type |-> "BULK_UPDATE", userId |-> u, attemptId |-> 0, itemId |-> <<0, 0>>,
   hasSkillIds |-> FALSE, skillIds |-> <<>>,
   isCorrect |-> "NULL", score |-> -1, finalScore |-> -1, updates |-> updates]

\* publishProgressEvent
publishProgressEvent(queue, job) == queue \cup {job}

RecordFirst(fa, store, it, key, answer, isCorrect, score, correctAnswer) ==
  IF fa[store][it].set THEN fa
  ELSE [fa EXCEPT ![store][it] =
          [set |-> TRUE, key |-> key, answer |-> answer, isCorrect |-> isCorrect,
           score |-> score, correctAnswer |-> correctAnswer]]

\* an UPDATE of the item that leaves the attempts column alone
AnsweredItem_AttemptsKept(item, answer, isCorrect, score, hints) ==
  [item EXCEPT !.answer = answer, !.is_correct = isCorrect, !.score = score,
               !.hints_used = hints, !.responded_at = now]

\* UPDATE attempt_items SET answer_payload, is_correct, score, hints_used,
\* attempts = attempts + 1, responded_at = CURRENT_TIMESTAMP
AnsweredItem(item, answer, isCorrect, score, hints) ==
  [item EXCEPT !.answer = answer, !.is_correct = isCorrect, !.score = score,
               !.hints_used = hints, !.attempts = @ + 1, !.responded_at = now]

\* PUT /quiz-attempts/:attemptId/items/:itemId
SaveAnswerV1(u, a, it, key, answer, hints) ==
  /\ UNCHANGED <<questions, progress_summary, user_streak, legacyVars, historyVars,
                 masteryVars, stepVars>>
  /\ LET attempt == quiz_attempts[a]
         item == attempt_items[it]
         Reject(code) ==
           /\ resp' = KeyedResponse("v1", a, it, key, code, NoBody)
           /\ UNCHANGED <<quiz_attempts, attempt_items, progressQueue, firstAccepted, now>>
     IN IF ~attempt.exists THEN Reject(404)
        ELSE IF ~OwnedBy(attempt, u) THEN Reject(403)
        ELSE IF attempt.status # "in_progress" THEN Reject(400)
        ELSE IF AlreadyAnswered(key, item)
        THEN /\ resp' = KeyedResponse("v1", a, it, key, 200,
                                 [NoBody EXCEPT !.alreadyAnswered = TRUE])
             /\ UNCHANGED <<quiz_attempts, attempt_items, progressQueue, firstAccepted, now>>
        ELSE IF ~(item.exists /\ it[1] = a) THEN Reject(404)
        ELSE IF ~questions[item.question_id].exists THEN Reject(500)
        ELSE LET original == questions[item.question_id]
                 isCorrect == GradeV1(item.options, original.correctOptionIds, answer)
                 score == IF isCorrect = "true" THEN 100 ELSE 0
                 correctAnswer == IF isCorrect # "true"
                                  THEN FirstCorrectText(original.options, original.correctOptionIds)
                                  ELSE "NULL"
                 items2 == [attempt_items EXCEPT ![it] =
                              AnsweredItem(@, answer, isCorrect, score, hints)]
             IN /\ attempt_items' = items2
                /\ quiz_attempts' = [quiz_attempts EXCEPT
                                       ![a].completed_questions = AnsweredCount(items2, a)]
                /\ progressQueue' = publishProgressEvent(progressQueue,
                                       AnswerSavedJob(u, a, it, item, isCorrect, score))
                /\ firstAccepted' = RecordFirst(firstAccepted, "v1", it, key, answer,
                                                isCorrect, score, correctAnswer)
                /\ Tick
                /\ resp' = KeyedResponse("v1", a, it, key, 200,
                                    [NoBody EXCEPT !.isCorrect = isCorrect, !.score = score,
                                                   !.correctAnswer = correctAnswer])

\* AVG(score) * 100 over the answered items, 0 when there is none
FinalScoreV1(items, a) ==
  IF AnsweredCount(items, a) = 0 THEN 0
  ELSE RoundDiv(10000 * CorrectCount(items, a), AnsweredCount(items, a))

\* POST /quiz-attempts/:attemptId/submit
SubmitAttemptV1(u, a) ==
  /\ UNCHANGED <<questions, attempt_items, progress_summary, user_streak, legacyVars,
                 firstAccepted, historyVars, masteryVars, stepVars>>
  /\ LET attempt == quiz_attempts[a]
         Reject(code) ==
           /\ resp' = Response("submit", "v1", a, <<0, 0>>, code, NoBody)
           /\ UNCHANGED <<quiz_attempts, progressQueue, now>>
     IN IF ~attempt.exists THEN Reject(404)
        ELSE IF ~OwnedBy(attempt, u) THEN Reject(403)
        ELSE IF attempt.status # "in_progress" THEN Reject(400)
        ELSE LET finalScore == FinalScoreV1(attempt_items, a) IN
             /\ quiz_attempts' = [quiz_attempts EXCEPT ![a].status = "completed",
                                                       ![a].completed_at = now]
             /\ progressQueue' = publishProgressEvent(progressQueue,
                                                      AttemptCompletedJob(u, a, finalScore))
             /\ Tick
             /\ resp' = Response("submit", "v1", a, <<0, 0>>, 200,
                                 [NoBody EXCEPT !.finalScore = finalScore,
                                                !.answeredQuestions = AnsweredCount(attempt_items, a),
                                                !.totalQuestions = attempt.total_questions])

\* the progress_summary rows a job writes
JobWrites(job, k) ==
  /\ k[1] = job.userId
  /\ IF job.type = "ANSWER_SAVED"
     THEN k[2] \in Range(SkillsOf(job.hasSkillIds, job.skillIds))
     ELSE IF job.type = "ATTEMPT_COMPLETED"
     THEN quiz_attempts[job.attemptId].exists /\ GroupedTotal(job.attemptId, k[2]) > 0
     ELSE \E i \in 1..Len(job.updates) : job.updates[i].skill = k[2]

\* the history of every row after a job that left the table as ps
RecordHistory(h, job, ps) ==
  [k \in DOMAIN h |->
     IF JobWrites(job, k)
     THEN [answers |-> h[k].answers
                       + (IF job.type = "ANSWER_SAVED"
                          THEN Occurrences(SkillsOf(job.hasSkillIds, job.skillIds), k[2])
                          ELSE 0),
           allCorrect |-> h[k].allCorrect /\ job.type = "ANSWER_SAVED" /\ job.isCorrect = "true",
           high |-> Max(h[k].high, ps[k].current_streak)]
     ELSE h[k]]

\* the callback of progressQueue.process('updateProgress', ...), by event type
process(job) ==
  LET ps == IF job.type = "ANSWER_SAVED"
            THEN processAnswerSaved(progress_summary, job.userId,
                                    SkillsOf(job.hasSkillIds, job.skillIds), job.isCorrect)
            ELSE IF job.type = "ATTEMPT_COMPLETED"
            THEN processAttemptCompleted(progress_summary, job.userId, job.attemptId)
            ELSE processBulkUpdate(progress_summary, job.userId, job.updates)
  IN /\ progress_summary' = ps
     /\ user_streak' = IF job.type = "ATTEMPT_COMPLETED"
                       THEN updateStreaks(user_streak, job.userId,
                                          job.finalScore >= StreakThreshold)
                       ELSE user_streak
     /\ progressHistory' = RecordHistory(progressHistory, job, ps)

\* progressQueue.process('updateProgress', ...): one job, start to finish
ProcessJob(job) ==
  /\ job \in progressQueue
  /\ progressQueue' = progressQueue \ {job}
  /\ UNCHANGED <<questions, quiz_attempts, attempt_items, legacyVars, firstAccepted,
                 startSnapshot, masteryVars, stepVars, now>>
  /\ resp' = Response("processJob", "worker", job.attemptId, job.itemId, 0, NoBody)
  /\ process(job)

\* a job added to the queue by a publisher outside the routes and handed to the
\* callback at once
DeliverJob(job) ==
  /\ UNCHANGED <<questions, quiz_attempts, attempt_items, progressQueue, legacyVars,
                 firstAccepted, startSnapshot, masteryVars, stepVars, now>>
  /\ resp' = Response("processJob", "worker", job.attemptId, job.itemId, 0, NoBody)
  /\ process(job)

\* ---------------------------------------------------- legacy REST routes
\* a || b for nullable text
OrElse(a, b) == IF a # "NULL" THEN a ELSE b

\* the correct_answer column of a new response: the REST route stores
\* question.correctAnswer
LegacyCorrectAnswer(q) == q.correctAnswer

\* QuizService stores question.correctAnswer || question.content?.canonicalSolution
\* || question.content?.correctOptionIds?.[0]
GraphqlCorrectAnswer(q) ==
  OrElse(q.correctAnswer,
         OrElse(q.canonicalSolution,
                IF Len(q.correctOptionIds) > 0 THEN q.correctOptionIds[1] ELSE "NULL"))

\* the rows inserted by a start: one quiz, one response per selected question
CreateQuiz(a, u, n, selected, via) ==
  /\ quizzes' = [quizzes EXCEPT ![a] =
        [exists |-> TRUE, user_id |-> u, total_questions |-> n, status |-> "in_progress",
         completed_at |-> -1, completed_questions |-> 0, score |-> -1]]
  /\ quiz_responses' = [i \in ItemIds |->
        IF i[1] = a /\ i[2] <= Len(selected)
        THEN LET q == questions[selected[i[2]]] IN
             [NoItem EXCEPT !.exists = TRUE, !.question_id = selected[i[2]],
                            !.correct_answer = IF via = "graphql" THEN GraphqlCorrectAnswer(q)
                                               ELSE LegacyCorrectAnswer(q),
                            !.attempts = 1]
        ELSE quiz_responses[i]]
  /\ startSnapshot' = [startSnapshot EXCEPT !["legacy"] =
        [i \in ItemIds |->
           IF i[1] = a /\ i[2] <= Len(selected) THEN questions[selected[i[2]]] ELSE @[i]]]

\* POST /quiz-attempts (quizzes variant)
StartAttemptLegacy(u, n) ==
  /\ FreeIds(quizzes) # {}
  /\ UNCHANGED <<questions, v1Vars, user_progress, firstAccepted, progressHistory,
                 masteryVars, stepVars>>
  /\ \E shuffled \in ShuffleOutcomes(Find("active")) :
       LET a == NextId(quizzes) IN
       /\ CreateQuiz(a, u, n, Slice(shuffled, n), "legacy")
       /\ Tick
       /\ resp' = Response("start", "legacy", a, <<0, 0>>, 201, NoBody)

\* mastery_level of the ON CONFLICT DO UPDATE branch, stored as DECIMAL(3,2)
LegacyMastery(newCorrect, newTotal) ==
  IF newTotal >= LegacyFullMasteryAt THEN 100
  ELSE RoundDiv(Min(RoundDiv(1000 * newCorrect, newTotal), 1000), 10)

\* INSERT INTO user_progress ... ON CONFLICT DO UPDATE; a failing statement
\* (division by zero) is caught and leaves the row as it was
UpsertUserProgress(up, u, addTotal, addCorrect, insertMastery) ==
  IF ~up[u].exists
  THEN [up EXCEPT ![u] = [NoProgress EXCEPT !.exists = TRUE,
                                            !.total_questions_answered = addTotal,
                                            !.correct_answers = addCorrect,
                                            !.mastery_level = insertMastery]]
  ELSE IF up[u].total_questions_answered + addTotal = 0 THEN up
  ELSE [up EXCEPT ![u].total_questions_answered = @ + addTotal,
                  ![u].correct_answers = @ + addCorrect,
                  ![u].mastery_level = LegacyMastery(up[u].correct_answers + addCorrect,
                                                     up[u].total_questions_answered + addTotal)]

\* PUT /quiz-attempts/:attemptId/items/:itemId (quizzes variant)
SaveAnswerLegacy(u, a, it, key, answer, hints) ==
  /\ UNCHANGED <<questions, v1Vars, historyVars, masteryVars, stepVars>>
  /\ LET attempt == quizzes[a]
         item == quiz_responses[it]
         Reject(code) ==
           /\ resp' = KeyedResponse("legacy", a, it, key, code, NoBody)
           /\ UNCHANGED <<quizzes, quiz_responses, user_progress, firstAccepted, now>>
     IN IF ~attempt.exists THEN Reject(404)
        ELSE IF ~OwnedBy(attempt, u) THEN Reject(403)
        ELSE IF attempt.status # "in_progress" THEN Reject(400)
        \* the idempotency query names item_id and answer_payload, columns
        \* quiz_responses does not have: the query throws
        ELSE IF key # "NULL" THEN Reject(500)
        ELSE IF ~(item.exists /\ it[1] = a) THEN Reject(404)
        ELSE LET isCorrect == answer = item.correct_answer
                 score == IF isCorrect THEN 10000 ELSE 0
                 correctAnswer == IF ~isCorrect THEN item.correct_answer ELSE "NULL"
                 items2 == [quiz_responses EXCEPT ![it] =
                              [@ EXCEPT !.answer = answer, !.is_correct = BoolText(isCorrect),
                                        !.hints_used = hints, !.attempts = @ + 1]]
             IN /\ quiz_responses' = items2
                /\ quizzes' = [quizzes EXCEPT ![a].completed_questions = AnsweredCount(items2, a)]
                /\ user_progress' = UpsertUserProgress(user_progress, u, 1,
                                       IF isCorrect THEN 1 ELSE 0,
                                       IF isCorrect THEN 10 ELSE 0)
                /\ firstAccepted' = RecordFirst(firstAccepted, "legacy", it, key, answer,
                                                BoolText(isCorrect), score, correctAnswer)
                /\ Tick
                /\ resp' = KeyedResponse("legacy", a, it, key, 200,
                                    [NoBody EXCEPT !.isCorrect = BoolText(isCorrect),
                                                   !.score = score,
                                                   !.correctAnswer = correctAnswer])

\* AVG(CASE WHEN is_correct THEN 100 ELSE 0 END) over the answered responses
FinalScoreLegacy(items, a) ==
  IF AnsweredCount(items, a) = 0 THEN 0
  ELSE RoundDiv(10000 * CorrectCount(items, a), AnsweredCount(items, a))

\* POST /quiz-attempts/:attemptId/submit (quizzes variant)
SubmitAttemptLegacy(u, a) ==
  /\ UNCHANGED <<questions, v1Vars, quiz_responses, firstAccepted, historyVars,
                 masteryVars, stepVars>>
  /\ LET attempt == quizzes[a]
         Reject(code) ==
           /\ resp' = Response("submit", "legacy", a, <<0, 0>>, code, NoBody)
           /\ UNCHANGED <<quizzes, user_progress, now>>
     IN IF ~attempt.exists THEN Reject(404)
        ELSE IF ~OwnedBy(attempt, u) THEN Reject(403)
        ELSE IF attempt.status # "in_progress" THEN Reject(400)
        ELSE LET finalScore == FinalScoreLegacy(quiz_responses, a)
                 answered == AnsweredCount(quiz_responses, a)
                 correctCount == CorrectCount(quiz_responses, a)
             IN /\ quizzes' = [quizzes EXCEPT ![a].status = "completed",
                                              ![a].completed_at = now]
                /\ user_progress' = UpsertUserProgress(user_progress, u, answered, correctCount,
                                       IF answered = 0 THEN 0
                                       ELSE Min(RoundDiv(100 * correctCount, answered), 100))
                /\ Tick
                /\ resp' = Response("submit", "legacy", a, <<0, 0>>, 200,
                                    [NoBody EXCEPT !.finalScore = finalScore,
                                                   !.answeredQuestions = answered,
                                                   !.totalQuestions = attempt.total_questions])

\* -------------------------------------------------- GraphQL (QuizService)
\* thrown errors surface as GraphQL errors: code 1 = 'not found', 2 = any other
\* QuizService.startQuizAttempt
StartQuizAttempt(u, n) ==
  /\ FreeIds(quizzes) # {}
  /\ UNCHANGED <<questions, v1Vars, user_progress, firstAccepted, progressHistory,
                 masteryVars, stepVars>>
  /\ LET active == Find("active")
         available == IF Len(active) < n THEN active \o Find("draft") ELSE active
     IN IF available = <<>>
        THEN /\ resp' = Response("start", "graphql", 0, <<0, 0>>, 2, NoBody)
             /\ UNCHANGED <<quizzes, quiz_responses, startSnapshot, now>>
        ELSE \E shuffled \in ShuffleOutcomes(available) :
               LET a == NextId(quizzes) IN
               /\ CreateQuiz(a, u, n, Slice(shuffled, n), "graphql")
               /\ Tick
               /\ resp' = Response("start", "graphql", a, <<0, 0>>, 201, NoBody)

\* question.correctAnswer === answer || correctOptionIds?.includes(answer) || false
GradeGraphql(q, answer) ==
  q.correctAnswer = answer \/ answer \in Range(q.correctOptionIds)

\* Mutation.saveAnswer -> QuizService.saveAnswer (the idempotencyKey argument is not passed on)
SaveAnswer(u, a, it, key, answer, hints) ==
  /\ UNCHANGED <<questions, v1Vars, quizzes, user_progress, historyVars, masteryVars, stepVars>>
  /\ LET item == quiz_responses[it]
         Throw(code) ==
           /\ resp' = KeyedResponse("graphql", a, it, key, code, NoBody)
           /\ UNCHANGED <<quiz_responses, firstAccepted, now>>
     IN IF ~(item.exists /\ it[1] = a /\ OwnedBy(quizzes[a], u)) THEN Throw(1)
        ELSE IF ~questions[item.question_id].exists THEN Throw(2)
        ELSE LET question == questions[item.question_id]
                 isCorrect == GradeGraphql(question, answer)
                 score == IF isCorrect THEN 100 ELSE 0
                 correctAnswer == OrElse(question.correctAnswer, question.canonicalSolution)
             IN /\ quiz_responses' = [quiz_responses EXCEPT ![it] =
                                        [@ EXCEPT !.answer = answer,
                                                  !.is_correct = BoolText(isCorrect),
                                                  !.hints_used = hints]]
                /\ firstAccepted' = RecordFirst(firstAccepted, "legacy", it, key, answer,
                                                BoolText(isCorrect), score, correctAnswer)
                /\ Tick
                /\ resp' = KeyedResponse("graphql", a, it, key, 200,
                                    [NoBody EXCEPT !.isCorrect = BoolText(isCorrect),
                                                   !.score = score,
                                                   !.correctAnswer = correctAnswer])

ResponseCount(items, a) == Cardinality({o \in Ordinals : items[<<a, o>>].exists})

AllCorrectCount(items, a) ==
  Cardinality({o \in Ordinals : items[<<a, o>>].exists /\ items[<<a, o>>].is_correct = "true"})

\* correct_answers > 0 ? (correct_answers / total_questions) * 100 : 0, over all responses
FinalScoreGraphql(items, a) ==
  IF AllCorrectCount(items, a) > 0
  THEN RoundDiv(10000 * AllCorrectCount(items, a), ResponseCount(items, a))
  ELSE 0

\* Mutation.submitQuizAttempt -> QuizService.submitQuizAttempt
SubmitQuizAttempt(u, a) ==
  /\ UNCHANGED <<questions, v1Vars, quiz_responses, user_progress, firstAccepted,
                 historyVars, masteryVars, stepVars>>
  /\ IF ~(quizzes[a].exists /\ OwnedBy(quizzes[a], u))
     THEN /\ resp' = Response("submit", "graphql", a, <<0, 0>>, 1, NoBody)
          /\ UNCHANGED <<quizzes, now>>
     ELSE LET finalScore == FinalScoreGraphql(quiz_responses, a) IN
          /\ quizzes' = [quizzes EXCEPT ![a].status = "completed",
                                        ![a].completed_at = now,
                                        ![a].score = finalScore]
          /\ Tick
          /\ resp' = Response("submit", "graphql", a, <<0, 0>>, 200,
                              [NoBody EXCEPT !.finalScore = finalScore,
                                             !.answeredQuestions = AllCorrectCount(quiz_responses, a),
                                             !.totalQuestions = ResponseCount(quiz_responses, a)])

\* ------------------------------------------------------- question bank
\* the input documents of updateQuestion tried here: new content that moves the
\* correct option from a to b, and a new status alone
QuestionInputs ==
  { [status |-> "NULL", hasContent |-> TRUE, options |-> OptionList,
     correctOptionIds |-> <<"b">>],
    [status |-> "draft", hasContent |-> FALSE, options |-> <<>>, correctOptionIds |-> <<>>] }

\* findByIdAndUpdate(id, update): the update's top-level fields replace the
\* document's (a content field replaces the content sub-document whole)
findByIdAndUpdate(doc, update) ==
  [doc EXCEPT !.status = IF update.status # "NULL" THEN update.status ELSE @,
              !.hasContent = update.hasContent \/ @,
              !.options = IF update.hasContent THEN update.options ELSE @,
              !.correctOptionIds = IF update.hasContent THEN update.correctOptionIds ELSE @,
              !.canonicalSolution = IF update.hasContent THEN "NULL" ELSE @]

\* the outcome of a question-bank operation; code 200 or the error's code
BankResponse(op, via, code) == Response(op, via, 0, <<0, 0>>, code, NoBody)

\* the part of every question-bank operation that touches nothing but the bank
BankOnly == UNCHANGED <<v1Vars, legacyVars, firstAccepted, historyVars, masteryVars, stepVars>>

\* a GraphQL question mutation: any authenticated user, no look at the status
QuestionMutation(op, q, update) ==
  /\ BankOnly
  /\ IF ~questions[q].exists
     THEN /\ resp' = BankResponse(op, "graphql", 2)
          /\ UNCHANGED <<questions, now>>
     ELSE /\ questions' = [questions EXCEPT ![q] = findByIdAndUpdate(@, update)]
          /\ Tick
          /\ resp' = BankResponse(op, "graphql", 200)

\* Mutation.updateQuestion
updateQuestion(q, input) == QuestionMutation("updateQuestion", q, input)

StatusOnly(status) ==
  [status |-> status, hasContent |-> FALSE, options |-> <<>>, correctOptionIds |-> <<>>]

\* Mutation.promoteQuestion
promoteQuestion(q) == QuestionMutation("promoteQuestion", q, StatusOnly("active"))

\* Mutation.retireQuestion
retireQuestion(q) == QuestionMutation("retireQuestion", q, StatusOnly("retired"))

\* POST /questions/:id/promote (admin only)
PromoteRoute(u, q) ==
  /\ BankOnly
  /\ LET question == questions[q]
         Reject(code) == resp' = BankResponse("promote", "rest", code) /\ UNCHANGED <<questions, now>>
     IN IF UserRole(u) # "admin" THEN Reject(403)
        ELSE IF ~question.exists THEN Reject(404)
        ELSE IF question.status # "draft" THEN Reject(400)
        ELSE IF ~question.hasContent THEN Reject(500)
        ELSE IF Len(question.options) = 0 \/ Len(question.correctOptionIds) = 0 THEN Reject(400)
        ELSE /\ questions' = [questions EXCEPT ![q].status = "active"]
             /\ Tick
             /\ resp' = BankResponse("promote", "rest", 200)

\* POST /questions/:id/retire (admin only)
RetireRoute(u, q) ==
  /\ BankOnly
  /\ LET question == questions[q]
         Reject(code) == resp' = BankResponse("retire", "rest", code) /\ UNCHANGED <<questions, now>>
     IN IF UserRole(u) # "admin" THEN Reject(403)
        ELSE IF ~question.exists THEN Reject(404)
        ELSE IF question.status = "retired" THEN Reject(400)
        ELSE /\ questions' = [questions EXCEPT ![q].status = "retired"]
             /\ Tick
             /\ resp' = BankResponse("retire", "rest", 200)

\* ------------------------------------------------------- specification
\* totalQuestions of a start request: up to one more than the bank can supply
TotalQuestionsValues == 1..(MaxTotalQuestions + 1)

\* the v1 routes with the progress worker, for the first MaxClock writes
NextV1 ==
  \/ \E u \in Users, n \in TotalQuestionsValues :
       now < MaxClock /\ StartAttemptV1(u, n)
  \/ \E u \in Users, a \in AttemptIds, it \in ItemIds, key \in Keys, answer \in Answers,
        hints \in HintsUsedValues :
       now < MaxClock /\ SaveAnswerV1(u, a, it, key, answer, hints)
  \/ \E u \in Users, a \in AttemptIds :
       now < MaxClock /\ SubmitAttemptV1(u, a)
  \/ \E job \in progressQueue : ProcessJob(job)

SpecV1 == Init /\ [][NextV1]_vars

\* the quizzes / quiz_responses tables with both of their entry points
NextLegacy ==
  \/ \E u \in Users, n \in TotalQuestionsValues :
       now < MaxClockLegacy /\ StartAttemptLegacy(u, n)
  \/ \E u \in Users, a \in AttemptIds, it \in ItemIds, key \in Keys, answer \in Answers,
        hints \in HintsUsedValues :
       now < MaxClockLegacy /\ SaveAnswerLegacy(u, a, it, key, answer, hints)
  \/ \E u \in Users, a \in AttemptIds :
       now < MaxClockLegacy /\ SubmitAttemptLegacy(u, a)
  \/ \E u \in Users, n \in TotalQuestionsValues :
       now < MaxClockLegacy /\ StartQuizAttempt(u, n)
  \/ \E u \in Users, a \in AttemptIds, it \in ItemIds, key \in Keys, answer \in Answers,
        hints \in HintsUsedValues :
       now < MaxClockLegacy /\ SaveAnswer(u, a, it, key, answer, hints)
  \/ \E u \in Users, a \in AttemptIds :
       now < MaxClockLegacy /\ SubmitQuizAttempt(u, a)

SpecLegacy == Init /\ [][NextLegacy]_vars

\* every entry point side by side, for the first MaxClockAll writes
Next ==
  \/ \E u \in Users, n \in TotalQuestionsValues :
       now < MaxClockAll /\ StartAttemptV1(u, n)
  \/ \E u \in Users, a \in AttemptIds, it \in ItemIds, key \in Keys, answer \in Answers,
        hints \in HintsUsedValues :
       now < MaxClockAll /\ SaveAnswerV1(u, a, it, key, answer, hints)
  \/ \E u \in Users, a \in AttemptIds :
       now < MaxClockAll /\ SubmitAttemptV1(u, a)
  \/ \E job \in progressQueue : ProcessJob(job)
  \/ \E u \in Users, n \in TotalQuestionsValues :
       now < MaxClockAll /\ StartAttemptLegacy(u, n)
  \/ \E u \in Users, a \in AttemptIds, it \in ItemIds, key \in Keys, answer \in Answers,
        hints \in HintsUsedValues :
       now < MaxClockAll /\ SaveAnswerLegacy(u, a, it, key, answer, hints)
  \/ \E u \in Users, a \in AttemptIds :
       now < MaxClockAll /\ SubmitAttemptLegacy(u, a)
  \/ \E u \in Users, n \in TotalQuestionsValues :
       now < MaxClockAll /\ StartQuizAttempt(u, n)
  \/ \E u \in Users, a \in AttemptIds, it \in ItemIds, key \in Keys, answer \in Answers,
        hints \in HintsUsedValues :
       now < MaxClockAll /\ SaveAnswer(u, a, it, key, answer, hints)
  \/ \E u \in Users, a \in AttemptIds :
       now < MaxClockAll /\ SubmitQuizAttempt(u, a)

Spec == Init /\ [][Next]_vars

\* the question bank's operations beside the routes that snapshot and grade
NextBank ==
  \/ \E q \in Range(QIds), input \in QuestionInputs :
       now < MaxClockBank /\ updateQuestion(q, input)
  \/ \E q \in Range(QIds) : now < MaxClockBank /\ promoteQuestion(q)
  \/ \E q \in Range(QIds) : now < MaxClockBank /\ retireQuestion(q)
  \/ \E u \in Users, q \in Range(QIds) : now < MaxClockBank /\ PromoteRoute(u, q)
  \/ \E u \in Users, q \in Range(QIds) : now < MaxClockBank /\ RetireRoute(u, q)
  \/ \E u \in Users, n \in TotalQuestionsValues :
       now < MaxClockBank /\ StartAttemptV1(u, n)
  \/ \E u \in Users, a \in AttemptIds, it \in ItemIds, key \in {"NULL"}, answer \in Answers,
        hints \in HintsUsedValues :
       now < MaxClockBank /\ SaveAnswerV1(u, a, it, key, answer, hints)
  \/ \E u \in Users, n \in TotalQuestionsValues :
       now < MaxClockBank /\ StartQuizAttempt(u, n)
  \/ \E u \in Users, a \in AttemptIds, it \in ItemIds, key \in {"NULL"}, answer \in Answers,
        hints \in HintsUsedValues :
       now < MaxClockBank /\ SaveAnswer(u, a, it, key, answer, hints)

SpecBank == Init /\ [][NextBank]_vars

\* ---- calculateMasteryLevel on its own: every (correct, total) up to the bound
MasteryInputs == {p \in (0..MaxMasteryTotal) \X (0..MaxMasteryTotal) : p[1] <= p[2]}

InitMastery ==
  /\ InitLedger
  /\ mIn \in MasteryInputs
  /\ mOut = -1

ComputeMastery ==
  /\ mOut = -1
  /\ mOut' = calculateMasteryLevel(mIn[1], mIn[2])
  /\ UNCHANGED <<questions, v1Vars, legacyVars, firstAccepted, historyVars, resp, now, mIn, stepVars>>

SpecMastery == InitMastery /\ [][ComputeMastery]_vars

\* ---- the progress worker on its own: events for one user and one skill
WorkerKey == <<"u1", "s1">>

AnswerSavedEvents ==
  {AnswerSavedJob(WorkerKey[1], 0, <<0, 0>>, [hasSkillIds |-> TRUE, skillIds |-> <<WorkerKey[2]>>],
                  BoolText(c), IF c THEN 100 ELSE 0) : c \in BOOLEAN}

\* the correctAnswers of a bulk update's stats; nothing validates them against
\* totalQuestions
BulkCorrectValues == {-1, 0, 1, 2}

BulkUpdateEvents ==
  {BulkUpdateJob(WorkerKey[1],
                 << [skill |-> WorkerKey[2], totalQuestions |-> 1, correctAnswers |-> c] >>) :
     c \in BulkCorrectValues}

NextWorker ==
  \/ \E job \in AnswerSavedEvents :
       progress_summary[WorkerKey].total_questions_answered < MaxAnswers /\ DeliverJob(job)
  \/ \E job \in BulkUpdateEvents :
       progress_summary[WorkerKey].total_questions_answered < MaxBulkTotal /\ DeliverJob(job)

SpecWorker == Init /\ [][NextWorker]_vars

\* ---- the v1 handlers await by await: a handler is suspended at each query,
\* and the steps of another request run in between
RequestOnly == UNCHANGED <<questions, progress_summary, user_streak, legacyVars,
                           historyVars, masteryVars, activeJobs, completedJobs, failedJobs>>

\* progressQueue.add inside publishProgressEvent: the job is added, or add
\* throws and the catch block logs the error and returns
publishOrDrop(queue, job, added) ==
  IF added THEN publishProgressEvent(queue, job) ELSE queue

\* POST /quiz-attempts/:attemptId/submit, up to the status check
SubmitRead(r, u, a) ==
  /\ inflight[r].pc = "idle"
  /\ RequestOnly
  /\ UNCHANGED <<quiz_attempts, attempt_items, progressQueue, firstAccepted, now>>
  /\ LET attempt == quiz_attempts[a]
         Reject(code) ==
           /\ resp' = Response("submit", "v1", a, <<0, 0>>, code, NoBody)
           /\ UNCHANGED inflight
     IN IF ~attempt.exists THEN Reject(404)
        ELSE IF ~OwnedBy(attempt, u) THEN Reject(403)
        ELSE IF attempt.status # "in_progress" THEN Reject(400)
        ELSE /\ inflight' = [inflight EXCEPT ![r] =
                               [Idle EXCEPT !.pc = "submit:checked", !.u = u, !.a = a,
                                            !.totalQuestions = attempt.total_questions]]
             /\ UNCHANGED resp

\* SELECT AVG(score), COUNT(*) FROM attempt_items ... answer_payload IS NOT NULL
SubmitScore(r) ==
  /\ inflight[r].pc = "submit:checked"
  /\ RequestOnly
  /\ UNCHANGED <<quiz_attempts, attempt_items, progressQueue, firstAccepted, now, resp>>
  /\ inflight' = [inflight EXCEPT ![r] =
                    [@ EXCEPT !.pc = "submit:scored",
                              !.finalScore = FinalScoreV1(attempt_items, inflight[r].a),
                              !.answeredCount = AnsweredCount(attempt_items, inflight[r].a)]]

\* UPDATE quiz_attempts SET status = 'completed', completed_at = CURRENT_TIMESTAMP
\* WHERE attempt_id = $1
SubmitUpdate(r) ==
  /\ inflight[r].pc = "submit:scored"
  /\ RequestOnly
  /\ UNCHANGED <<attempt_items, progressQueue, firstAccepted, resp>>
  /\ quiz_attempts' = [quiz_attempts EXCEPT ![inflight[r].a].status = "completed",
                                            ![inflight[r].a].completed_at = now]
  /\ Tick
  /\ inflight' = [inflight EXCEPT ![r].pc = "submit:updated"]

\* publishProgressEvent({type: 'ATTEMPT_COMPLETED', ...}) and the response
SubmitPublish(r, added) ==
  /\ inflight[r].pc = "submit:updated"
  /\ RequestOnly
  /\ UNCHANGED <<quiz_attempts, attempt_items, firstAccepted>>
  /\ LET call == inflight[r] IN
     /\ progressQueue' = publishOrDrop(progressQueue,
                            AttemptCompletedJob(call.u, call.a, call.finalScore), added)
     /\ Tick
     /\ resp' = Response("submit", "v1", call.a, <<0, 0>>, 200,
                         [NoBody EXCEPT !.finalScore = call.finalScore,
                                        !.answeredQuestions = call.answeredCount,
                                        !.totalQuestions = call.totalQuestions])
     /\ inflight' = [inflight EXCEPT ![r] = Idle]

\* PUT /quiz-attempts/:attemptId/items/:itemId, up to the grading: the attempt,
\* idempotency and item queries and the question lookup
AnswerCheck(r, u, a, it, key, answer, hints) ==
  /\ inflight[r].pc = "idle"
  /\ RequestOnly
  /\ UNCHANGED <<quiz_attempts, attempt_items, progressQueue, firstAccepted, now>>
  /\ LET attempt == quiz_attempts[a]
         item == attempt_items[it]
         Reject(code) ==
           /\ resp' = KeyedResponse("v1", a, it, key, code, NoBody)
           /\ UNCHANGED inflight
     IN IF ~attempt.exists THEN Reject(404)
        ELSE IF ~OwnedBy(attempt, u) THEN Reject(403)
        ELSE IF attempt.status # "in_progress" THEN Reject(400)
        ELSE IF AlreadyAnswered(key, item)
        THEN /\ resp' = KeyedResponse("v1", a, it, key, 200,
                                 [NoBody EXCEPT !.alreadyAnswered = TRUE])
             /\ UNCHANGED inflight
        ELSE IF ~(item.exists /\ it[1] = a) THEN Reject(404)
        ELSE IF ~questions[item.question_id].exists THEN Reject(500)
        ELSE LET original == questions[item.question_id]
                 isCorrect == GradeV1(item.options, original.correctOptionIds, answer)
             IN /\ inflight' = [inflight EXCEPT ![r] =
                      [Idle EXCEPT !.pc = "answer:graded", !.u = u, !.a = a, !.it = it,
                                   !.key = key, !.answer = answer, !.hints = hints,
                                   !.isCorrect = isCorrect,
                                   !.score = IF isCorrect = "true" THEN 100 ELSE 0,
                                   !.correctAnswer =
                                      IF isCorrect # "true"
                                      THEN FirstCorrectText(original.options,
                                                            original.correctOptionIds)
                                      ELSE "NULL",
                                   !.hasSkillIds = item.hasSkillIds,
                                   !.skillIds = item.skillIds]]
                /\ UNCHANGED resp

\* transaction(...): UPDATE attempt_items, UPDATE quiz_attempts, COMMIT
AnswerWrite(r) ==
  /\ inflight[r].pc = "answer:graded"
  /\ RequestOnly
  /\ UNCHANGED <<progressQueue, resp>>
  /\ LET call == inflight[r]
         items2 == [attempt_items EXCEPT ![call.it] =
                      AnsweredItem(@, call.answer, call.isCorrect, call.score, call.hints)]
     IN /\ attempt_items' = items2
        /\ quiz_attempts' = [quiz_attempts EXCEPT
                               ![call.a].completed_questions = AnsweredCount(items2, call.a)]
        /\ firstAccepted' = RecordFirst(firstAccepted, "v1", call.it, call.key, call.answer,
                                        call.isCorrect, call.score, call.correctAnswer)
        /\ Tick
        /\ inflight' = [inflight EXCEPT ![r].pc = "answer:written"]

\* publishProgressEvent({type: 'ANSWER_SAVED', ...}) and the response
AnswerPublish(r, added) ==
  /\ inflight[r].pc = "answer:written"
  /\ RequestOnly
  /\ UNCHANGED <<quiz_attempts, attempt_items, firstAccepted>>
  /\ LET call == inflight[r] IN
     /\ progressQueue' = publishOrDrop(progressQueue,
                            AnswerSavedJob(call.u, call.a, call.it, call, call.isCorrect,
                                           call.score), added)
     /\ Tick
     /\ resp' = KeyedResponse("v1", call.a, call.it, call.key, 200,
                              [NoBody EXCEPT !.isCorrect = call.isCorrect,
                                             !.score = call.score,
                                             !.correctAnswer = call.correctAnswer])
     /\ inflight' = [inflight EXCEPT ![r] = Idle]

\* two clients of one user, each sending its requests with the same
\* Idempotency-Key, against the v1 routes and the progress worker
RaceKey == "k1"

NextRace ==
  \/ \E u \in Users, n \in 1..2 : now < MaxClockRace /\ StartAttemptV1(u, n)
  \/ \E r \in Slots, u \in Users, a \in AttemptIds, it \in ItemIds, answer \in Answers :
       now < MaxClockRace /\ AnswerCheck(r, u, a, it, RaceKey, answer, 0)
  \/ \E r \in Slots : AnswerWrite(r)
  \/ \E r \in Slots, added \in BOOLEAN : AnswerPublish(r, added)
  \/ \E r \in Slots, u \in Users, a \in AttemptIds : now < MaxClockRace /\ SubmitRead(r, u, a)
  \/ \E r \in Slots : SubmitScore(r)
  \/ \E r \in Slots : SubmitUpdate(r)
  \/ \E r \in Slots, added \in BOOLEAN : SubmitPublish(r, added)
  \/ \E job \in progressQueue : ProcessJob(job)

SpecRace == Init /\ [][NextRace]_vars

\* ---- the queue workers statement by statement: the callback runs in up to
\* 10 workers at once, each updateProgressSummary in a transaction of its own
\* at PostgreSQL's default READ COMMITTED level.  The steps cover ANSWER_SAVED
\* jobs; a job that is run again stays with its worker.
WorkerOnly == UNCHANGED <<questions, quiz_attempts, attempt_items, user_streak, legacyVars,
                          firstAccepted, historyVars, masteryVars, inflight, resp>>

\* the skill the worker's open transaction is about
SkillAt(slot) == SkillsOf(slot.job.hasSkillIds, slot.job.skillIds)[slot.index]

\* publishProgressEvent called with an ANSWER_SAVED event
PublishEvent(job) ==
  /\ progressQueue' = publishProgressEvent(progressQueue, job)
  /\ Tick
  /\ WorkerOnly
  /\ UNCHANGED <<progress_summary, activeJobs, completedJobs, failedJobs>>

\* a free worker takes a waiting job and calls the callback
TakeJob(w, job) ==
  /\ activeJobs[w].pc = "idle"
  /\ job \in progressQueue
  /\ job.type = "ANSWER_SAVED"
  /\ progressQueue' = progressQueue \ {job}
  /\ activeJobs' = [activeJobs EXCEPT ![w] =
                      [NoActive EXCEPT !.pc = "begin", !.job = job, !.index = 1]]
  /\ WorkerOnly
  /\ UNCHANGED <<progress_summary, completedJobs, failedJobs, now>>

\* BEGIN; SELECT * FROM progress_summary WHERE user_id, subject, topic, skill
TxSelect(w) ==
  /\ activeJobs[w].pc = "begin"
  /\ activeJobs' = [activeJobs EXCEPT
                      ![w].pc = "selected",
                      ![w].existing = progress_summary[<<activeJobs[w].job.userId,
                                                         SkillAt(activeJobs[w])>>]]
  /\ WorkerOnly
  /\ UNCHANGED <<progressQueue, progress_summary, completedJobs, failedJobs, now>>

\* the callback re-throws "to trigger retry": Bull runs the job again until
\* `attempts` runs have failed, then moves it to the failed set
Thrown(w, error) ==
  LET made == activeJobs[w].attemptsMade + 1 IN
  IF made < MaxTries
  THEN /\ activeJobs' = [activeJobs EXCEPT ![w] =
                           [NoActive EXCEPT !.pc = "begin", !.job = activeJobs[w].job,
                                            !.index = 1, !.attemptsMade = made,
                                            !.lastError = error]]
       /\ UNCHANGED failedJobs
  ELSE /\ activeJobs' = [activeJobs EXCEPT ![w] = NoActive]
       /\ failedJobs' = failedJobs \cup {activeJobs[w].job}

\* the INSERT or UPDATE chosen from the selected row, then COMMIT; an INSERT of
\* a key that another transaction has committed meanwhile violates the primary
\* key: ROLLBACK and throw
TxWrite(w) ==
  /\ activeJobs[w].pc = "selected"
  /\ WorkerOnly
  /\ UNCHANGED <<progressQueue, now>>
  /\ LET slot == activeJobs[w]
         k == <<slot.job.userId, SkillAt(slot)>>
         skills == SkillsOf(slot.job.hasSkillIds, slot.job.skillIds)
     IN IF ~slot.existing.exists /\ progress_summary[k].exists
        THEN /\ Thrown(w, "unique_violation")
             /\ UNCHANGED <<progress_summary, completedJobs>>
        ELSE /\ progress_summary' =
                  [progress_summary EXCEPT ![k] =
                     updateProgressSummary(slot.existing, 1,
                                           IF slot.job.isCorrect = "true" THEN 1 ELSE 0)]
             /\ UNCHANGED failedJobs
             /\ IF slot.index < Len(skills)
                THEN /\ activeJobs' = [activeJobs EXCEPT ![w].pc = "begin",
                                                         ![w].index = @ + 1,
                                                         ![w].existing = NoProgress]
                     /\ UNCHANGED completedJobs
                ELSE /\ activeJobs' = [activeJobs EXCEPT ![w] = NoActive]
                     /\ completedJobs' = completedJobs
                                         \cup {[job |-> slot.job,
                                                attemptsMade |-> slot.attemptsMade]}

\* a statement of the open transaction fails (connection lost): ROLLBACK, throw
TxError(w) ==
  /\ activeJobs[w].pc \in {"begin", "selected"}
  /\ Thrown(w, "connection")
  /\ WorkerOnly
  /\ UNCHANGED <<progressQueue, progress_summary, completedJobs, now>>

\* the skill lists of the events published to the workers
EventSkills == {<<"s1">>, <<"s1", "s2">>}

\* an ANSWER_SAVED event of user u1 for the listed skills
SkillEvent(skills, c) ==
  AnswerSavedJob("u1", 0, <<0, 0>>, [hasSkillIds |-> TRUE, skillIds |-> skills],
                 BoolText(c), IF c THEN 100 ELSE 0)

\* concurrent workers, no failing statement
NextWorkerRace ==
  \/ \E skills \in EventSkills, c \in BOOLEAN :
       now < MaxEvents /\ PublishEvent(SkillEvent(skills, c))
  \/ \E w \in Slots, job \in progressQueue : TakeJob(w, job)
  \/ \E w \in Slots : TxSelect(w)
  \/ \E w \in Slots : TxWrite(w)

SpecWorkerRace == Init /\ [][NextWorkerRace]_vars

\* one event at a time, with failing statements and Bull's retries
NextWorkerRetry ==
  \/ \E skills \in EventSkills, c \in BOOLEAN :
       /\ now < MaxRetryEvents
       /\ progressQueue = {}
       /\ \A w \in Slots : activeJobs[w].pc = "idle"
       /\ PublishEvent(SkillEvent(skills, c))
  \/ \E w \in Slots, job \in progressQueue : TakeJob(w, job)
  \/ \E w \in Slots : TxSelect(w)
  \/ \E w \in Slots : TxWrite(w)
  \/ \E w \in Slots : TxError(w)

SpecWorkerRetry == Init /\ [][NextWorkerRetry]_vars

\* the same steps under a running system: a suspended handler is resumed when
\* its query returns, and the queue worker keeps taking waiting jobs
SpecRaceFair ==
  /\ SpecRace
  /\ \A r \in Slots :
       /\ WF_vars(AnswerWrite(r))
       /\ WF_vars(\E added \in BOOLEAN : AnswerPublish(r, added))
       /\ WF_vars(SubmitScore(r))
       /\ WF_vars(SubmitUpdate(r))
       /\ WF_vars(\E added \in BOOLEAN : SubmitPublish(r, added))
  /\ WF_vars(\E job \in progressQueue : ProcessJob(job))

\* ================================================================ claims
Abs(x) == IF x < 0 THEN -x ELSE x

\* m (hundredths) is accuracy * min(1, total/20) rounded to two decimals: it lies
\* within half a hundredth of the exact product correct/total * min(total, 20)/20
IsRoundedMastery(m, correct, total) ==
  LET num == 100 * correct * Min(total, 20)
      den == 20 * total
  IN 2 * Abs(m * den - num) <= den

\* C9: for every total >= 1 and 0 <= correct <= total, calculateMasteryLevel
\* returns round((correct/total) * min(1, total/20), 2); 1 correct out of 1
\* gives 0.05, and an all-correct record reaches 1.0 only from 20 observations.
C9_MasteryFormula ==
  (mOut # -1 /\ mIn[2] >= 1) =>
     /\ IsRoundedMastery(mOut, mIn[1], mIn[2])
     /\ (mIn = <<1, 1>> => mOut = 5)
     /\ (mIn[1] = mIn[2] => (mOut = 100 <=> mIn[2] >= 20))

\* the accumulator has computed the mastery of 1 correct out of 1
C9_Witness == mIn = <<1, 1>> /\ mOut = 5

\* ---- shared vocabulary of the claims below
SaveAnswerArgs == Users \X AttemptIds \X ItemIds \X Keys \X Answers \X HintsUsedValues

\* the graded fields of an item row are the same in both rows
SameGrading(old, new) ==
  new.answer = old.answer /\ new.is_correct = old.is_correct /\ new.score = old.score

\* no table, queue or counter of either store changes in the step
LedgerUnchanged ==
  UNCHANGED <<quiz_attempts, attempt_items, progressQueue, progress_summary, user_streak,
              quizzes, quiz_responses, user_progress>>

Terminal == {"completed", "abandoned"}

\* C1: once an attempt is completed, every later saveAnswer on one of its items,
\* through the REST route or through GraphQL saveAnswer, fails and leaves the
\* item's answer, is_correct and score unchanged.
C1_TerminalImmutability ==
  [][\A p \in SaveAnswerArgs :
       LET a == p[2]
           it == p[3]
       IN (/\ quizzes[a].exists
           /\ quizzes[a].status = "completed"
           /\ it[1] = a
           /\ quiz_responses[it].exists
           /\ \/ SaveAnswerLegacy(p[1], a, it, p[4], p[5], p[6])
              \/ SaveAnswer(p[1], a, it, p[4], p[5], p[6]))
          => (/\ resp'.code # 200
              /\ SameGrading(quiz_responses[it], quiz_responses'[it]))]_vars

\* C2: a second saveAnswer on an item, with the key and the answer of the item's
\* first accepted answer, succeeds and returns the first call's isCorrect, score
\* and correctAnswer.
C2_IdempotentReplayResult ==
  [][\A p \in SaveAnswerArgs :
       LET a == p[2]
           it == p[3]
           first == firstAccepted["v1"][it]
       IN (/\ first.set
           /\ p[4] # "NULL"
           /\ first.key = p[4]
           /\ first.answer = p[5]
           /\ it[1] = a
           /\ quiz_attempts[a].user_id = p[1]
           /\ quiz_attempts[a].status = "in_progress"
           /\ SaveAnswerV1(p[1], a, it, p[4], p[5], p[6]))
          => (/\ resp'.code = 200
              /\ resp'.body.isCorrect = first.isCorrect
              /\ resp'.body.score = first.score
              /\ resp'.body.correctAnswer = first.correctAnswer)]_vars

\* the ANSWER_SAVED jobs waiting in the queue for an item
QueuedAnswerJobs(queue, it) ==
  {job \in queue : job.type = "ANSWER_SAVED" /\ job.itemId = it}

C4_DuplicateRejected ==
  [][\A p \in SaveAnswerArgs :
       LET a == p[2]
           it == p[3]
           first == firstAccepted["v1"][it]
       IN (/\ first.set
           /\ attempt_items[it].answer # "NULL"
           /\ (p[4] = "NULL" \/ p[4] # first.key)
           /\ it[1] = a
           /\ quiz_attempts[a].user_id = p[1]
           /\ quiz_attempts[a].status = "in_progress"
           /\ SaveAnswerV1(p[1], a, it, p[4], p[5], p[6]))
          => (/\ resp'.code # 200
              /\ SameGrading(attempt_items[it], attempt_items'[it]))]_vars

\* C5: a second submit of a completed attempt succeeds, returns the final score
\* stored with the attempt and leaves the attempt row unchanged.
C5_DoubleSubmit ==
  [][\A u \in Users, a \in AttemptIds :
       (/\ quizzes[a].exists
        /\ quizzes[a].status = "completed"
        /\ quizzes[a].user_id = u
        /\ (SubmitAttemptLegacy(u, a) \/ SubmitQuizAttempt(u, a)))
       => (/\ resp'.code = 200
           /\ resp'.body.finalScore = quizzes[a].score
           /\ quizzes'[a] = quizzes[a])]_vars

\* the items table behind the latest response
RespondedItems == IF resp.via = "v1" THEN attempt_items ELSE quiz_responses

\* the mean, on the 0..100 scale, of the scores of the answered items of attempt a
MeanOfAnswered(items, a) ==
  LET answered == {o \in Ordinals : items[<<a, o>>].exists /\ items[<<a, o>>].answer # "NULL"}
      correct == {o \in answered : items[<<a, o>>].is_correct = "true"}
  IN IF answered = {} THEN 0
     ELSE RoundDiv(10000 * Cardinality(correct), Cardinality(answered))

\* C6: the finalScore of a submit, through REST or through GraphQL
\* submitQuizAttempt, is the mean of the scores of the answered items only, on
\* the 0..100 scale, and 0 when no item is answered.
C6_FinalScoreExcludesBlanks ==
  (resp.op = "submit" /\ resp.code = 200)
  => resp.body.finalScore = MeanOfAnswered(RespondedItems, resp.attempt)

\* C7: an attempt's status changes only from in_progress to completed or
\* abandoned, and no operation changes a completed or abandoned attempt's row
\* (the completion write is not executed again).
C7_StatusOnlyForward ==
  [][\A a \in AttemptIds :
       /\ (quizzes[a].exists /\ quizzes'[a].status # quizzes[a].status)
          => (quizzes[a].status = "in_progress" /\ quizzes'[a].status \in Terminal)
       /\ (quizzes[a].exists /\ quizzes[a].status \in Terminal)
          => quizzes'[a] = quizzes[a]
       /\ (quiz_attempts[a].exists /\ quiz_attempts'[a].status # quiz_attempts[a].status)
          => (quiz_attempts[a].status = "in_progress" /\ quiz_attempts'[a].status \in Terminal)
       /\ (quiz_attempts[a].exists /\ quiz_attempts[a].status \in Terminal)
          => quiz_attempts'[a] = quiz_attempts[a]]_vars

\* C8 as stated: a saveAnswer or submit by a caller who is neither the attempt's
\* owner nor an admin is rejected as not authorized (403) and changes no
\* attempt, item or progress record.  (OfStep only picks, among the requests
\* quantified over, the one the step answers.)
C8_NotAuthorizedEverywhere ==
  [][\A p \in SaveAnswerArgs :
       LET u == p[1]
           a == p[2]
           it == p[3]
           OfStep(op, item, key) ==
             resp'.op = op /\ resp'.attempt = a /\ resp'.item = item /\ resp'.key = key
           Refused(code) == resp'.code = code /\ LedgerUnchanged
       IN /\ (quiz_attempts[a].exists /\ quiz_attempts[a].user_id # u /\ UserRole(u) # "admin")
             => /\ (OfStep("saveAnswer", it, p[4]) /\ SaveAnswerV1(u, a, it, p[4], p[5], p[6]))
                   => Refused(403)
                /\ (OfStep("submit", <<0, 0>>, "NULL") /\ SubmitAttemptV1(u, a))
                   => Refused(403)
          /\ (quizzes[a].exists /\ quizzes[a].user_id # u /\ UserRole(u) # "admin")
             => /\ (OfStep("saveAnswer", it, p[4]) /\ SaveAnswerLegacy(u, a, it, p[4], p[5], p[6]))
                   => Refused(403)
                /\ (OfStep("submit", <<0, 0>>, "NULL") /\ SubmitAttemptLegacy(u, a))
                   => Refused(403)
                /\ (OfStep("saveAnswer", it, p[4]) /\ SaveAnswer(u, a, it, p[4], p[5], p[6]))
                   => Refused(403)
                /\ (OfStep("submit", <<0, 0>>, "NULL") /\ SubmitQuizAttempt(u, a))
                   => Refused(403)]_vars

\* C8, amended: a saveAnswer or submit by a caller who is not the attempt's owner,
\* whatever the caller's role, is rejected, by the REST routes as not authorized
\* (403) and by the GraphQL service with its not-found error (code 1), and
\* changes no attempt, item or progress record.
C8_NonOwnerRejected ==
  [][\A p \in SaveAnswerArgs :
       LET u == p[1]
           a == p[2]
           it == p[3]
           OfStep(op, item, key) ==
             resp'.op = op /\ resp'.attempt = a /\ resp'.item = item /\ resp'.key = key
           Refused(code) == resp'.code = code /\ LedgerUnchanged
       IN /\ (quiz_attempts[a].exists /\ quiz_attempts[a].user_id # u)
             => /\ (OfStep("saveAnswer", it, p[4]) /\ SaveAnswerV1(u, a, it, p[4], p[5], p[6]))
                   => Refused(403)
                /\ (OfStep("submit", <<0, 0>>, "NULL") /\ SubmitAttemptV1(u, a))
                   => Refused(403)
          /\ (quizzes[a].exists /\ quizzes[a].user_id # u)
             => /\ (OfStep("saveAnswer", it, p[4]) /\ SaveAnswerLegacy(u, a, it, p[4], p[5], p[6]))
                   => Refused(403)
                /\ (OfStep("submit", <<0, 0>>, "NULL") /\ SubmitAttemptLegacy(u, a))
                   => Refused(403)
                /\ (OfStep("saveAnswer", it, p[4]) /\ SaveAnswer(u, a, it, p[4], p[5], p[6]))
                   => Refused(1)
                /\ (OfStep("submit", <<0, 0>>, "NULL") /\ SubmitQuizAttempt(u, a))
                   => Refused(1)]_vars

\* the GraphQL service has turned away a saveAnswer on an existing item of the
\* attempt named in the request: the caller was not the owner
C8_Witness ==
  /\ resp.op = "saveAnswer"
  /\ resp.via = "graphql"
  /\ resp.code = 1
  /\ resp.item[1] = resp.attempt
  /\ quiz_responses[resp.item].exists
  /\ quiz_responses[resp.item].answer = "NULL"

\* C10: every stored progress record, whichever writer produced it, has
\* mastery_level = round((correct_answers / total_questions_answered)
\*                       * min(1, total_questions_answered / 20), 2).
C10_StoredMasteryFormula ==
  /\ \A u \in Users :
       (user_progress[u].exists /\ user_progress[u].total_questions_answered > 0)
       => IsRoundedMastery(user_progress[u].mastery_level, user_progress[u].correct_answers,
                           user_progress[u].total_questions_answered)
  /\ \A k \in DOMAIN progress_summary :
       (progress_summary[k].exists /\ progress_summary[k].total_questions_answered > 0)
       => IsRoundedMastery(progress_summary[k].mastery_level, progress_summary[k].correct_answers,
                           progress_summary[k].total_questions_answered)

\* ---- the progress worker's records
\* C11: starting from no record, after N >= 1 consecutive correct answers to a
\* skill the record has total = N, correct = N, current_streak = N and
\* best_streak = N.
C11_StreakCountsCorrectAnswers ==
  \A k \in DOMAIN progress_summary :
    LET h == progressHistory[k]
        row == progress_summary[k]
    IN (h.allCorrect /\ h.answers >= 1)
       => (/\ row.exists
           /\ row.total_questions_answered = h.answers
           /\ row.correct_answers = h.answers
           /\ row.current_streak = h.answers
           /\ row.best_streak = h.answers)

\* the step applies one incorrect answer to row k
OneIncorrectAnswer(k) ==
  /\ progressHistory'[k].answers = progressHistory[k].answers + 1
  /\ progress_summary'[k].total_questions_answered
       = progress_summary[k].total_questions_answered + 1
  /\ progress_summary'[k].correct_answers = progress_summary[k].correct_answers

\* C12: when a record has current_streak = K > 0 and best_streak = K, one
\* incorrect answer for its skill sets current_streak to 0 and leaves
\* best_streak at K.
C12_StreakReset ==
  [][\A k \in DOMAIN progress_summary :
       (/\ progress_summary[k].exists
        /\ progress_summary[k].current_streak > 0
        /\ progress_summary[k].best_streak = progress_summary[k].current_streak
        /\ OneIncorrectAnswer(k))
       => (/\ progress_summary'[k].current_streak = 0
           /\ progress_summary'[k].best_streak = progress_summary[k].best_streak)]_vars

\* correct answers only, then one incorrect answer: the streak of 1 they had
\* built is reset and remembered
C12_Witness ==
  /\ progressHistory[WorkerKey].answers = 3
  /\ progress_summary[WorkerKey].total_questions_answered = 3
  /\ progress_summary[WorkerKey].correct_answers = 2
  /\ progress_summary[WorkerKey].current_streak = 0
  /\ progress_summary[WorkerKey].best_streak = 1

C14_MasteryMonotone ==
  [][\A k \in DOMAIN progress_summary :
       (/\ progressHistory[k].allCorrect
        /\ progressHistory'[k].allCorrect
        /\ progressHistory'[k].answers = progressHistory[k].answers + 1)
       => progress_summary'[k].mastery_level >= progress_summary[k].mastery_level]_vars

\* 21 consecutive correct answers from the zero state: mastery has reached 1.0
C14_Witness ==
  /\ progressHistory[WorkerKey].allCorrect
  /\ progressHistory[WorkerKey].answers = 21
  /\ progress_summary[WorkerKey].mastery_level = 100

\* C15: in every reachable state every progress record has
\* 0 <= mastery_level <= 1, after any sequence of ANSWER_SAVED,
\* ATTEMPT_COMPLETED and BULK_UPDATE events and direct upserts.
C15_MasteryRange ==
  /\ \A k \in DOMAIN progress_summary :
       progress_summary[k].mastery_level >= 0 /\ progress_summary[k].mastery_level <= 100
  /\ \A u \in Users :
       user_progress[u].mastery_level >= 0 /\ user_progress[u].mastery_level <= 100

\* ---- the question bank and the snapshots
\* C16: the is_correct recorded by an accepted saveAnswer, through the v1 route
\* or through GraphQL, is the grading of the answer against the question as it
\* was when the attempt started; an edit of the question in between does not
\* change it.
C16_GradingUsesSnapshot ==
  [][(/\ resp'.op = "saveAnswer"
      /\ resp'.via \in {"v1", "graphql"}
      /\ resp'.code = 200
      /\ ~resp'.body.alreadyAnswered)
     => LET it == resp'.item IN
        IF resp'.via = "v1"
        THEN LET snapshot == startSnapshot["v1"][it]
                 row == attempt_items'[it]
             IN (row.is_correct = "true")
                <=> (GradeV1(snapshot.options, snapshot.correctOptionIds, row.answer) = "true")
        ELSE LET snapshot == startSnapshot["legacy"][it]
                 row == quiz_responses'[it]
             IN (row.is_correct = "true") <=> GradeGraphql(snapshot, row.answer)]_vars

\* the content of a question document
ContentOf(doc) ==
  <<doc.hasContent, doc.options, doc.correctOptionIds, doc.canonicalSolution,
    doc.correctAnswer>>

\* C17: no operation of the backend changes the content (options, correct option
\* ids, solution) of a question whose status is active; only its status may
\* change.
C17_ActiveQuestionImmutable ==
  [][\A q \in Range(QIds) :
       (questions[q].exists /\ questions[q].status = "active")
       => ContentOf(questions'[q]) = ContentOf(questions[q])]_vars

\* ---- answers and starts
\* C18: the result of an accepted saveAnswer, through a REST route or through
\* GraphQL, carries a correctAnswer exactly when the answer was not graded
\* correct.
C18_CorrectAnswerOnlyWhenWrong ==
  (resp.op = "saveAnswer" /\ resp.code = 200 /\ ~resp.body.alreadyAnswered)
  => ((resp.body.correctAnswer # "NULL") <=> (resp.body.isCorrect # "true"))

\* the ordinals of the items of attempt a in an items table
OrdinalsOf(items, a) == {o \in Ordinals : items[<<a, o>>].exists}

\* C19: a start that asks for more questions than match its filters fails and
\* creates no attempt row and no item rows, at every entry point.
C19_InsufficientQuestionsRejected ==
  [][\A u \in Users, n \in TotalQuestionsValues :
       (/\ Len(Find("active")) < n
        /\ \/ StartAttemptV1(u, n)
           \/ StartAttemptLegacy(u, n)
           \/ StartQuizAttempt(u, n))
       => (/\ resp'.code # 201
           /\ UNCHANGED <<quiz_attempts, attempt_items, quizzes, quiz_responses>>)]_vars

\* C20: in every reachable state every attempt with total_questions = N has
\* exactly N items, with the ordinals 1..N.
C20_ItemsMatchAttempt ==
  \A a \in AttemptIds :
    /\ quiz_attempts[a].exists
       => OrdinalsOf(attempt_items, a) = 1..quiz_attempts[a].total_questions
    /\ quizzes[a].exists
       => OrdinalsOf(quiz_responses, a) = 1..quizzes[a].total_questions

\* C21: in every reachable state an attempt has completed_at set if and only
\* if its status is completed, and completed_at, once set, is not changed by a
\* later operation.
C21_CompletedAtTracksCompletion ==
  [][\A a \in AttemptIds :
       /\ quizzes'[a].exists
          => ((quizzes'[a].completed_at # -1) <=> (quizzes'[a].status = "completed"))
       /\ quiz_attempts'[a].exists
          => ((quiz_attempts'[a].completed_at # -1)
              <=> (quiz_attempts'[a].status = "completed"))
       /\ (quizzes[a].exists /\ quizzes[a].completed_at # -1)
          => quizzes'[a].completed_at = quizzes[a].completed_at
       /\ (quiz_attempts[a].exists /\ quiz_attempts[a].completed_at # -1)
          => quiz_attempts'[a].completed_at = quiz_attempts[a].completed_at]_vars

CompletionJobs(queue, a) ==
  {j \in queue : j.type = "ATTEMPT_COMPLETED" /\ j.attemptId = a}

\* C23: when two submits of the same in_progress attempt run concurrently, in
\* any interleaving of their read-status, compute-score, write-status and
\* publish steps, the completion happens once: the status/completed_at write
\* is not executed on an attempt that is already completed, and at most one
\* ATTEMPT_COMPLETED event is published for the attempt.
C23_AtMostOneCompletion ==
  [][\A a \in AttemptIds :
       /\ (quiz_attempts[a].exists /\ quiz_attempts[a].status = "completed")
          => /\ quiz_attempts'[a].status = "completed"
             /\ quiz_attempts'[a].completed_at = quiz_attempts[a].completed_at
       /\ Cardinality(CompletionJobs(progressQueue', a)) <= 1]_vars

\* C24: when two saveAnswer requests for the same unanswered item, carrying
\* the same Idempotency-Key, run concurrently, at most one passes the
\* not-yet-answered check and is written: an item that has an answer is not
\* written again, and at most one ANSWER_SAVED event is published for it.
C24_RaceFreeCheckAndSet ==
  [][\A it \in ItemIds :
       /\ (attempt_items[it].exists /\ attempt_items[it].answer # "NULL")
          => attempt_items'[it] = attempt_items[it]
       /\ Cardinality(QueuedAnswerJobs(progressQueue', it)) <= 1]_vars

\* what the completed ANSWER_SAVED jobs in done add up to for the row k
RECURSIVE AppliedTotal(_, _)
AppliedTotal(done, k) ==
  IF done = {} THEN 0
  ELSE LET c == CHOOSE x \in done : TRUE IN
       (IF c.job.userId = k[1]
        THEN Occurrences(SkillsOf(c.job.hasSkillIds, c.job.skillIds), k[2]) ELSE 0)
       + AppliedTotal(done \ {c}, k)

RECURSIVE AppliedCorrect(_, _)
AppliedCorrect(done, k) ==
  IF done = {} THEN 0
  ELSE LET c == CHOOSE x \in done : TRUE IN
       (IF c.job.userId = k[1] /\ c.job.isCorrect = "true"
        THEN Occurrences(SkillsOf(c.job.hasSkillIds, c.job.skillIds), k[2]) ELSE 0)
       + AppliedCorrect(done \ {c}, k)

\* no job is waiting or running, and every job completed in its first run
AllCompletedFirstRun ==
  /\ progressQueue = {}
  /\ \A w \in Slots : activeJobs[w].pc = "idle"
  /\ failedJobs = {}
  /\ \A c \in completedJobs : c.attemptsMade = 0

\* C25: when progress updates for the same (user, subject, topic, skill) are
\* processed concurrently by the queue workers, the row reflects all of them:
\* once the jobs have completed, total_questions_answered and correct_answers
\* are the sums over the completed updates, and no update fails because the
\* other one created the row first.
C25_NoLostUpdates ==
  /\ \A w \in Slots : activeJobs[w].lastError # "unique_violation"
  /\ AllCompletedFirstRun
     => \A k \in Users \X Skills :
          /\ progress_summary[k].total_questions_answered = AppliedTotal(completedJobs, k)
          /\ progress_summary[k].correct_answers = AppliedCorrect(completedJobs, k)

\* C28: when the processing of an event that touches several skills fails
\* part-way and the queue runs the job again (up to 3 attempts), every skill's
\* total ends up incremented once for the event: after the only job published
\* has completed, each row holds the event's count for its skill.
C28_RetryAppliesOnce ==
  \A c \in completedJobs :
    (/\ completedJobs = {c}
     /\ progressQueue = {}
     /\ failedJobs = {}
     /\ \A w \in Slots : activeJobs[w].pc = "idle")
    => \A s \in Skills :
         progress_summary[<<c.job.userId, s>>].total_questions_answered
           = Occurrences(SkillsOf(c.job.hasSkillIds, c.job.skillIds), s)

\* the progress_summary rows of the skills of item it exist
ProgressRecorded(it) ==
  /\ quiz_attempts[it[1]].exists
  /\ \A s \in Range(SkillsOf(attempt_items[it].hasSkillIds, attempt_items[it].skillIds)) :
       progress_summary[<<quiz_attempts[it[1]].user_id, s>>].exists

\* C26: an accepted saveAnswer writes the item and the updated progress record
\* in one transaction: in no reachable state, also after a failed progress
\* write or a failed publication, is an item recorded as answered while the
\* progress record has not been updated for it.
C26_AnswerAndProgressTogether ==
  \A it \in ItemIds :
    (attempt_items[it].exists /\ attempt_items[it].answer # "NULL") => ProgressRecorded(it)

\* C27: for a submitted attempt in which every answered item was written once,
\* the skill's total_questions_answered has grown by the number k of answered
\* items of the skill, and correct_answers by the number of correct ones, once
\* the ANSWER_SAVED events and the ATTEMPT_COMPLETED event are all processed:
\* the completion event does not add the same answers again.
C27_EachAnswerCountedOnce ==
  \A a \in AttemptIds :
    (/\ quiz_attempts[a].exists
     /\ quiz_attempts[a].status = "completed"
     /\ progressQueue = {}
     /\ \A o \in Ordinals : attempt_items[<<a, o>>].attempts <= 2)
    => \A s \in Skills :
         LET row == progress_summary[<<quiz_attempts[a].user_id, s>>] IN
         /\ row.total_questions_answered = GroupedTotal(a, s)
         /\ row.correct_answers = GroupedCorrect(a, s)

\* C29: every saveAnswer that returns success is eventually applied to the
\* user's progress record, given that the queue worker keeps running: a failure
\* to enqueue the event does not drop the update.
C29_AcceptedAnswersReachLedger ==
  \A it \in ItemIds :
    (/\ resp.op = "saveAnswer" /\ resp.via = "v1" /\ resp.item = it
     /\ resp.code = 200 /\ ~resp.body.alreadyAnswered)
    ~> ProgressRecorded(it)

\* C30: a question's status changes only by draft -> active (when stem, options
\* and correct answers are present), draft -> retired or active -> retired; a
\* retired question never becomes active or draft again, through the REST
\* routes or the GraphQL mutations.
C30_StatusLifecycle ==
  [][\A q \in DOMAIN questions :
       (questions[q].exists /\ questions'[q].status # questions[q].status)
       => \/ /\ questions[q].status = "draft"
             /\ questions'[q].status = "active"
             /\ questions[q].hasContent
             /\ questions[q].options # <<>>
             /\ questions[q].correctOptionIds # <<>>
          \/ /\ questions[q].status \in {"draft", "active"}
             /\ questions'[q].status = "retired"]_vars

====
